---------------------------- MODULE Spec2Model ----------------------------
(***************************************************************************)
(* Model of cpppo's line echo server (src/server/echo.py).                 *)
(*                                                                         *)
(* One dispatcher (main) accepts connections and starts one server_thread  *)
(* per connection; each thread runs echo_server, which feeds the bytes it  *)
(* receives to the line machine built by echo_machine and sends back the   *)
(* line captured under data.echo whenever the machine reaches its terminal *)
(* state.  The peer of each connection is the environment: it delivers     *)
(* chunks, closes, or stays silent.                                        *)
(*                                                                         *)
(* The engine behind echo_machine (cpppo.fsm.run, cpppo.chainable,         *)
(* cpppo.dotdict) is not part of src/; chain and run below follow its      *)
(* description in spec.md, sections 4.1 to 4.3.                            *)
(***************************************************************************)
EXTENDS Integers, Sequences, FiniteSets, TLC

VARIABLES
    \* ---- per connection: the worker (server_thread running echo_server)
    wstate,      \* "unborn" | "recv" (blocked in recv, timeout=None) | "stopped"
    failure,     \* what server_thread.run caught and logged: "none" | "send" | "EINTR"
    rcvd,        \* every byte conn.recv has returned so far, concatenated
    nrecv,       \* the number of non-empty receives so far
    source,      \* the cpppo.chainable: [buf |-> bytes chained, pos |-> bytes consumed]
    data,        \* the cpppo.dotdict: a function from a subset of {"echo_", "echo"} to bytes
    sequence,    \* the generator echo_line.run(...): "fresh" | "suspended" | "finished"
    sent,        \* the arguments of every conn.send that returned, in order
    \* ---- per connection: the socket
    addr,        \* the peer address accept returned for it
    wrShut,      \* shutdown( SHUT_WR ) has been called on it
    closed,      \* close() has been called on it
    drained,     \* how a call of drain on it ended ([out |-> "none"]: no call yet)
    peerClosed,  \* the peer has closed its side (its FIN has arrived)
    \* ---- the dispatcher (main)
    mpc,         \* "loop" | "shutdown" | "joining" | "exit"
    done,        \* main's done flag
    threads,     \* main's threads dict: peer address -> connection (0: no entry)
    joining,     \* the address whose thread main is blocked joining ("-": none)
    sock,        \* the listening socket: "listening" | "closed"
    cause,       \* why done was set: "none" | "interrupt" | "failure"
    mainExc,     \* the failure main logged: "none" | "EINTR" | "error"
    status       \* main's return value (-1: main has not returned)

workerVars == <<wstate, failure, rcvd, nrecv, source, data, sequence, sent>>
sockVars   == <<addr, wrShut, closed, drained, peerClosed>>
mainVars   == <<mpc, done, threads, joining, sock, cause, mainExc, status>>
vars       == <<wstate, failure, rcvd, nrecv, source, data, sequence, sent,
                addr, wrShut, closed, drained, peerClosed,
                mpc, done, threads, joining, sock, cause, mainExc, status>>

---------------------------------------------------------------------------
\* Bounds and alphabets

\* Bytes received over all connections together.
MaxBytes == 3

\* The newline byte that ends the sentence '.*\n'.
NL == 10

\* The bytes a peer sends: the newline and one other byte.
Bytes == {NL, 97}

\* The connections the listener will see, in the order they are accepted.
Conns == {1, 2}

\* The peer addresses connections come from.
Addrs == {"p", "q"}

\* Non-empty chunks of at most n bytes.
Chunks(n) == UNION {[1..k -> Bytes] : k \in 1..n}

---------------------------------------------------------------------------
\* Sequence helpers

IsPrefix(s, t) == Len(s) <= Len(t) /\ SubSeq(t, 1, Len(s)) = s

RECURSIVE Flatten(_)
Flatten(ss) == IF ss = <<>> THEN <<>> ELSE Head(ss) \o Flatten(Tail(ss))

HasNL(s) == \E i \in 1..Len(s) : s[i] = NL

\* Index of the first newline of s (HasNL(s) assumed).
FirstNL(s) == CHOOSE i \in 1..Len(s) : s[i] = NL /\ \A j \in 1..(i-1) : s[j] # NL

\* The newline-terminated lines of s, in order; a trailing fragment is dropped.
RECURSIVE Lines(_)
Lines(s) == IF ~HasNL(s) THEN <<>>
            ELSE <<SubSeq(s, 1, FirstNL(s))>> \o Lines(SubSeq(s, FirstNL(s) + 1, Len(s)))

\* The trailing fragment of s: what follows its last newline.
RECURSIVE Fragment(_)
Fragment(s) == IF ~HasNL(s) THEN s ELSE Fragment(SubSeq(s, FirstNL(s) + 1, Len(s)))

TotalRcvd == LET RECURSIVE Sum(_)
                 Sum(S) == IF S = {} THEN 0
                           ELSE LET c == CHOOSE x \in S : TRUE
                                IN Len(rcvd[c]) + Sum(S \ {c})
             IN Sum(Conns)

---------------------------------------------------------------------------
\* The engine: byte source, artifact store, line machine

\* An empty dotdict.
NoData == [k \in {} |-> <<>>]

\* source.chain( msg ): append a chunk to the tail of the byte source.
chain(src, msg) == [src EXCEPT !.buf = @ \o msg]

\* The bytes of the source not yet consumed.
Unconsumed(src) == SubSeq(src.buf, src.pos + 1, Len(src.buf))

\* data[key] = value
Store(d, key, value) == [k \in DOMAIN d \cup {key} |-> IF k = key THEN value ELSE d[k]]

\* del data[key]
Delete(d, key) == [k \in DOMAIN d \ {key} |-> d[k]]

\* process as it would be if it added the capture to what the promoted key
\* holds instead of replacing it.
process_append(d) ==
    Delete(Store(d, "echo", (IF "echo" \in DOMAIN d THEN d["echo"] ELSE <<>>) \o d["echo_"]),
           "echo_")

\* process as it would be without the del of the sub-machine's key.
process_keep(d) == Store(d, "echo", d["echo_"])

\* echo.process: data[ours] = data[subs]; del data[subs], with ours = "echo"
\* and subs the sub-machine's key "echo_".
process(d) == Delete(Store(d, "echo", d["echo_"]), "echo_")

\* Drawing (mch, sta) from echo_line.run( source, data, greedy=False ) until
\* sta is None or the generator ends.  Each byte consumed is appended to the
\* sub-machine's capture data["echo_"]; the newline is the terminal state of
\* '.*\n', where process fires and the run stops without consuming further.
RECURSIVE run(_, _)
run(src, d) ==
    IF src.pos = Len(src.buf)
    THEN [sta |-> "none", source |-> src, data |-> d]
    ELSE LET b   == src.buf[src.pos + 1]
             cap == (IF "echo_" \in DOMAIN d THEN d["echo_"] ELSE <<>>) \o <<b>>
             d1  == Store(d, "echo_", cap)
             s1  == [src EXCEPT !.pos = @ + 1]
         IN IF b = NL
            THEN [sta |-> "terminal", source |-> s1, data |-> process(d1)]
            ELSE run(s1, d1)

---------------------------------------------------------------------------
\* readable, recv, accept

\* The readable wrapper around function.  sel is what select.select did:
\* "ready", "timeout" (nothing readable within timeout), or select.error
\* with EINTR or with another errno.  In the handler of select.error the
\* expression exc.arg[0] raises AttributeError (the exception has args, no
\* arg), so both errors leave the wrapper as an exception.
readable(sel, result) ==
    CASE sel = "ready"   -> [kind |-> "value", value |-> result]
      [] sel = "timeout" -> [kind |-> "none",  value |-> <<>>]
      [] sel = "EINTR"   -> [kind |-> "raise", value |-> <<>>]
      [] sel = "error"   -> [kind |-> "raise", value |-> <<>>]

\* recv( conn, timeout=... ): the payload, b'' on EOF or socket.error.
recv(sel, msg) == readable(sel, msg)

\* accept( sock, timeout=.1 ): (conn, addr) if a connection is pending.
accept(sel, c, a) == readable(sel, <<c, a>>)

---------------------------------------------------------------------------
\* drain

\* No call of drain yet.
NotDrained == [out |-> "none", ret |-> "none", msg |-> <<>>]

\* What conn.recv( maxlen ) gives inside recv: the payload, b'' on EOF, and
\* b'' as well when it raises socket.error.
Payload(rcv) == IF rcv = "data" THEN <<97>> ELSE <<>>

\* drain( conn, timeout=.1 ).  shut: what conn.shutdown( SHUT_WR ) did ("ok"
\* or "error", a socket.error); sel: what select did in the final recv;
\* rcv: what conn.recv did ("data", "eof" or "error"); cls: what
\* conn.close() did ("ok" or "error").  The shutdown and the close are
\* guarded by try/except socket.error; the call of recv is not, so an
\* exception leaving the readable wrapper leaves drain before conn.close().
drain(shut, sel, rcv, cls) ==
    LET r == IF shut = "error"
             THEN [kind |-> "value", value |-> <<>>]
             ELSE recv(sel, Payload(rcv))
    IN IF r.kind = "raise"
       THEN [out |-> "raise", ret |-> "none", msg |-> <<>>,
             wrShut |-> TRUE, closed |-> FALSE]
       ELSE [out |-> "return", ret |-> r.kind, msg |-> r.value,
             wrShut |-> (shut = "ok"), closed |-> TRUE]

\* A call of drain on the connection of a worker that has ended.
Drain(c, shut, sel, rcv, cls) ==
    /\ wstate[c] = "stopped"
    /\ drained[c].out = "none"
    /\ (rcv = "eof" => peerClosed[c])
    /\ (rcv = "data" => ~peerClosed[c])
    /\ LET r == drain(shut, sel, rcv, cls)
       IN /\ wrShut' = [wrShut EXCEPT ![c] = @ \/ r.wrShut]
          /\ closed' = [closed EXCEPT ![c] = r.closed]
          /\ drained' = [drained EXCEPT ![c] = [out |-> r.out, ret |-> r.ret, msg |-> r.msg]]
    /\ UNCHANGED <<workerVars, addr, peerClosed, mainVars>>

---------------------------------------------------------------------------
\* echo_server: one pass of its while loop after a non-empty recv

\* feed as it would be if the run were reset and restarted after every
\* receive, terminal or not: the partial capture is dropped.
feed_restart(src, d, msg) ==
    LET r == run(chain(src, msg), d)
    IN IF r.sta = "terminal"
       THEN [source |-> r.source, data |-> r.data, terminal |-> TRUE,
             send |-> <<r.data["echo"]>>]
       ELSE [source |-> r.source, data |-> Delete(r.data, "echo_"), terminal |-> FALSE,
             send |-> <<>>]

\* run as it would be with greedy=True: it goes on past a newline as long as
\* another newline is available, and ends at the last one.
RECURSIVE run_greedy(_, _)
run_greedy(src, d) ==
    IF src.pos = Len(src.buf)
    THEN [sta |-> "none", source |-> src, data |-> d]
    ELSE LET b   == src.buf[src.pos + 1]
             cap == (IF "echo_" \in DOMAIN d THEN d["echo_"] ELSE <<>>) \o <<b>>
             d1  == Store(d, "echo_", cap)
             s1  == [src EXCEPT !.pos = @ + 1]
         IN IF b = NL /\ ~HasNL(Unconsumed(s1))
            THEN [sta |-> "terminal", source |-> s1, data |-> process(d1)]
            ELSE run_greedy(s1, d1)

\* feed as it would be if echo_server passed greedy=True to run.
feed_greedy(src, d, msg) ==
    LET r == run_greedy(chain(src, msg), d)
    IN IF r.sta = "terminal"
       THEN [source |-> r.source, data |-> r.data, terminal |-> TRUE,
             send |-> <<r.data["echo"]>>]
       ELSE [source |-> r.source, data |-> r.data, terminal |-> FALSE,
             send |-> <<>>]

\* feed as it would be if the restarted run were given a new, empty source:
\* the bytes still buffered behind the newline are dropped.
feed_skip(src, d, msg) ==
    LET r == run(chain(src, msg), d)
    IN IF r.sta = "terminal"
       THEN [source |-> [r.source EXCEPT !.pos = Len(r.source.buf)], data |-> r.data,
             terminal |-> TRUE, send |-> <<r.data["echo"]>>]
       ELSE [source |-> r.source, data |-> r.data, terminal |-> FALSE,
             send |-> <<>>]

\* feed as it would be if the drive loop were repeated until the source is
\* exhausted: every line buffered is sent before the next receive.
RECURSIVE feed_all(_, _, _)
feed_all(src, d, msg) ==
    LET r == run(chain(src, msg), d)
    IN IF r.sta = "terminal"
       THEN LET rest == feed_all(r.source, r.data, <<>>)
            IN [source |-> rest.source, data |-> rest.data, terminal |-> TRUE,
                send |-> <<r.data["echo"]>> \o rest.send]
       ELSE [source |-> r.source, data |-> r.data, terminal |-> FALSE,
             send |-> <<>>]

\* feed as it would be if the line were sent without its newline.
feed_strip(src, d, msg) ==
    LET r == run(chain(src, msg), d)
    IN IF r.sta = "terminal"
       THEN [source |-> r.source, data |-> r.data, terminal |-> TRUE,
             send |-> <<SubSeq(r.data["echo"], 1, Len(r.data["echo"]) - 1)>>]
       ELSE [source |-> r.source, data |-> r.data, terminal |-> FALSE,
             send |-> <<>>]

\* source.chain( msg ); draw from sequence to terminal or exhaustion; on
\* terminal one line, data.echo, is to be sent and the run is restarted.
\* The loop body draws from the sequence once per receive.
feed(src, d, msg) ==
    LET r == run(chain(src, msg), d)
    IN IF r.sta = "terminal"
       THEN [source |-> r.source, data |-> r.data, terminal |-> TRUE,
             send |-> <<r.data["echo"]>>]
       ELSE [source |-> r.source, data |-> r.data, terminal |-> FALSE,
             send |-> <<>>]

\* AtEOF as it would be if the capture in progress were flushed on EOF.
AtEOF_flush(d) == IF "echo_" \in DOMAIN d THEN <<d["echo_"]>> ELSE <<>>

\* What echo_server sends once recv has returned b'' (EOF): nothing, it
\* breaks out of the loop.
AtEOF(d) == <<>>

\* server_thread_run as it would be without the try/except: the exception
\* leaves the thread and takes the process down with it.
server_thread_run_uncaught(c, exc) ==
    /\ wstate' = [wstate EXCEPT ![c] = "stopped"]
    /\ failure' = [failure EXCEPT ![c] = exc]
    /\ done' = TRUE
    /\ UNCHANGED <<mpc, threads, joining, sock, cause, mainExc, status>>

\* server_thread.run: an exception leaving echo_server is caught and logged;
\* the thread ends.  Nothing of main is touched.
server_thread_run(c, exc) ==
    /\ wstate' = [wstate EXCEPT ![c] = "stopped"]
    /\ failure' = [failure EXCEPT ![c] = exc]
    /\ UNCHANGED mainVars

\* echo_server, a receive that returns bytes (msg): chain, draw, send, reset.
\* sendOk: conn.send returned; otherwise it raised socket.error.
RecvData(c, msg, sendOk) ==
    /\ wstate[c] = "recv"
    /\ ~peerClosed[c]
    /\ TotalRcvd + Len(msg) <= MaxBytes
    /\ recv("ready", msg).value # <<>>
    /\ (wrShut[c] => ~sendOk)
    /\ LET f == feed(source[c], data[c], msg)
       IN /\ rcvd' = [rcvd EXCEPT ![c] = @ \o msg]
          /\ nrecv' = [nrecv EXCEPT ![c] = @ + 1]
          /\ source' = [source EXCEPT ![c] = f.source]
          /\ data' = [data EXCEPT ![c] = f.data]
          /\ IF ~f.terminal
             THEN /\ sendOk
                  /\ sequence' = [sequence EXCEPT ![c] = "suspended"]
                  /\ UNCHANGED <<sent, wstate, failure, mainVars>>
             ELSE IF sendOk
             THEN /\ sent' = [sent EXCEPT ![c] = @ \o f.send]
                  /\ sequence' = [sequence EXCEPT ![c] = "fresh"]
                  /\ UNCHANGED <<wstate, failure, mainVars>>
             ELSE /\ sequence' = [sequence EXCEPT ![c] = "finished"]
                  /\ UNCHANGED sent
                  /\ server_thread_run(c, "send")
    /\ UNCHANGED sockVars

\* echo_server, a receive that returns b'': the peer has closed.  The loop
\* ends and echo_server returns; the socket is left as it is.
RecvEOF(c) ==
    /\ wstate[c] = "recv"
    /\ peerClosed[c]
    /\ recv("ready", <<>>).value = <<>>
    /\ sent' = [sent EXCEPT ![c] = @ \o AtEOF(data[c])]
    /\ wstate' = [wstate EXCEPT ![c] = "stopped"]
    /\ UNCHANGED <<failure, rcvd, nrecv, source, data, sequence, sockVars, mainVars>>

\* echo_server, a receive whose select is interrupted (sel is "EINTR").
RecvSelectError(c, sel) ==
    /\ wstate[c] = "recv"
    /\ recv(sel, <<>>).kind = "raise"
    /\ server_thread_run(c, sel)
    /\ UNCHANGED <<rcvd, nrecv, source, data, sequence, sent, sockVars>>

\* The peer closes its side of the connection.
PeerClose(c) ==
    /\ wstate[c] # "unborn"
    /\ ~peerClosed[c]
    /\ peerClosed' = [peerClosed EXCEPT ![c] = TRUE]
    /\ UNCHANGED <<workerVars, addr, wrShut, closed, drained, mainVars>>

---------------------------------------------------------------------------
\* main and server_thread.join

\* The addresses whose thread in ths is no longer alive.
Finished(ths) == {a \in Addrs : ths[a] # 0 /\ wstate[ths[a]] = "stopped"}

\* The next connection the listener has pending, if any.
Pending(c) == wstate[c] = "unborn" /\ \A d \in Conns : d < c => wstate[d] # "unborn"

\* An address a new connection can come from: no earlier connection from it
\* is still held open by its peer.  The first connection's address is named p.
Free(a) == \A d \in Conns : (wstate[d] # "unborn" /\ addr[d] = a) => peerClosed[d]

\* server_thread.join, first half: self.conn.shutdown( SHUT_WR ), errors passed.
join_shutdown(S) == wrShut' = [c \in Conns |-> wrShut[c] \/ c \in S]

\* Reap as it would be with the liveness test inverted: the entries of the
\* threads still alive are deleted, those of the finished ones kept.
Reap_inverted(ths) ==
    /\ threads' = [a \in Addrs |-> IF a \in Finished(ths) THEN ths[a] ELSE 0]
    /\ join_shutdown({ths[a] : a \in {b \in Addrs : ths[b] # 0} \ Finished(ths)})

\* main's finally clause while done is False: every thread that is not alive
\* is joined (which returns at once) and its entry deleted.
Reap(ths) ==
    /\ threads' = [a \in Addrs |-> IF a \in Finished(ths) THEN 0 ELSE ths[a]]
    /\ join_shutdown({ths[a] : a \in Finished(ths)})

\* main's return value.
ExitStatus == 0

\* One pass of main's while loop in which accept times out.
MainIdle ==
    /\ mpc = "loop"
    /\ accept("timeout", 0, "-").kind = "none"
    /\ Reap(threads)
    /\ UNCHANGED <<workerVars, addr, closed, drained, peerClosed,
                   mpc, done, joining, sock, cause, mainExc, status>>

\* One pass in which accept returns connection c from address a: its
\* server_thread is stored under threads[a] and started.
MainAccept(c, a) ==
    /\ mpc = "loop"
    /\ Pending(c)
    /\ Free(a)
    /\ (c = 1 => a = "p")
    /\ accept("ready", c, a).value = <<c, a>>
    /\ wstate' = [wstate EXCEPT ![c] = "recv"]
    /\ addr' = [addr EXCEPT ![c] = a]
    /\ Reap([threads EXCEPT ![a] = c])
    /\ UNCHANGED <<failure, rcvd, nrecv, source, data, sequence, sent, closed, drained, peerClosed,
                   mpc, done, joining, sock, cause, mainExc, status>>

\* One pass in which KeyboardInterrupt arrives in the try block.
MainInterrupt ==
    /\ mpc = "loop"
    /\ done' = TRUE
    /\ cause' = "interrupt"
    /\ mpc' = "shutdown"
    /\ UNCHANGED <<workerVars, sockVars, threads, joining, sock, mainExc, status>>

\* One pass in which accept raises: select fails in the readable wrapper
\* (sel is "EINTR"), or sock.accept() itself fails (sel is "error").
MainFailure(sel) ==
    /\ mpc = "loop"
    /\ accept(sel, 0, "-").kind = "raise"
    /\ done' = TRUE
    /\ cause' = "failure"
    /\ mainExc' = sel
    /\ mpc' = "shutdown"
    /\ UNCHANGED <<workerVars, sockVars, threads, joining, sock, status>>

\* main's finally clause once done is True, for one address: join its thread,
\* which shuts down the write side of its socket and then waits for it.
MainJoinStart(a) ==
    /\ mpc = "shutdown"
    /\ threads[a] # 0
    /\ join_shutdown({threads[a]})
    /\ mpc' = "joining"
    /\ joining' = a
    /\ UNCHANGED <<workerVars, addr, closed, drained, peerClosed,
                   done, threads, sock, cause, mainExc, status>>

\* Thread.join returns once the thread has ended; del threads[addr].
MainJoinEnd ==
    /\ mpc = "joining"
    /\ wstate[threads[joining]] = "stopped"
    /\ threads' = [threads EXCEPT ![joining] = 0]
    /\ joining' = "-"
    /\ mpc' = "shutdown"
    /\ UNCHANGED <<workerVars, sockVars, done, sock, cause, mainExc, status>>

\* The loop has ended: sock.close(); return 0.
MainExit ==
    /\ mpc = "shutdown"
    /\ \A a \in Addrs : threads[a] = 0
    /\ sock' = "closed"
    /\ status' = ExitStatus
    /\ mpc' = "exit"
    /\ UNCHANGED <<workerVars, sockVars, done, threads, joining, cause, mainExc>>

---------------------------------------------------------------------------
\* The specification

Init ==
    /\ wstate = [c \in Conns |-> "unborn"]
    /\ failure = [c \in Conns |-> "none"]
    /\ rcvd = [c \in Conns |-> <<>>]
    /\ nrecv = [c \in Conns |-> 0]
    /\ source = [c \in Conns |-> [buf |-> <<>>, pos |-> 0]]
    /\ data = [c \in Conns |-> NoData]
    /\ sequence = [c \in Conns |-> "fresh"]
    /\ sent = [c \in Conns |-> <<>>]
    /\ addr = [c \in Conns |-> "-"]
    /\ wrShut = [c \in Conns |-> FALSE]
    /\ closed = [c \in Conns |-> FALSE]
    /\ drained = [c \in Conns |-> NotDrained]
    /\ peerClosed = [c \in Conns |-> FALSE]
    /\ mpc = "loop"
    /\ done = FALSE
    /\ threads = [a \in Addrs |-> 0]
    /\ joining = "-"
    /\ sock = "listening"
    /\ cause = "none"
    /\ mainExc = "none"
    /\ status = -1

MainNext ==
    \/ MainIdle
    \/ \E c \in Conns, a \in Addrs : MainAccept(c, a)
    \/ MainInterrupt
    \/ \E sel \in {"EINTR", "error"} : MainFailure(sel)
    \/ \E a \in Addrs : MainJoinStart(a)
    \/ MainJoinEnd
    \/ MainExit

WorkerNext ==
    \/ \E c \in Conns, msg \in Chunks(MaxBytes), sendOk \in BOOLEAN : RecvData(c, msg, sendOk)
    \/ \E c \in Conns : RecvEOF(c)
    \/ \E c \in Conns, sel \in {"EINTR"} : RecvSelectError(c, sel)

PeerNext == \E c \in Conns : PeerClose(c)

Next == MainNext \/ WorkerNext \/ PeerNext

Spec == Init /\ [][Next]_vars

\* drain is called by nothing in echo.py.  DrainSpec is the server with a
\* handler that calls drain, as its docstring says, once its worker has ended.
DrainNext ==
    \/ \E c \in Conns, a \in Addrs : MainAccept(c, a)
    \/ \E c \in Conns : PeerClose(c)
    \/ \E c \in Conns : RecvEOF(c)
    \/ \E c \in Conns, sel \in {"EINTR"} : RecvSelectError(c, sel)
    \/ \E c \in Conns, shut \in {"ok", "error"}, sel \in {"ready", "timeout", "EINTR", "error"},
          rcv \in {"data", "eof", "error"}, cls \in {"ok", "error"} :
            Drain(c, shut, sel, rcv, cls)

DrainSpec == Init /\ [][DrainNext]_vars

\* The scheduler runs every thread that can take a step: main, and a worker
\* whose recv can return.  The peers are under no obligation.
FairSpec ==
    /\ Spec
    /\ WF_vars(MainNext)
    /\ \A c \in Conns : WF_vars(RecvEOF(c))

---------------------------------------------------------------------------
\* Properties

\* The worker of c has returned from echo_server on EOF (no exception).
AtEnd(c) == wstate[c] = "stopped" /\ failure[c] = "none"

\* rcvd[c] without its trailing fragment: the complete lines received.
Complete(c) == SubSeq(rcvd[c], 1, Len(rcvd[c]) - Len(Fragment(rcvd[c])))

\* What echo_server sends when the whole stream s arrives in one receive.
OneChunk(s) == feed([buf |-> <<>>, pos |-> 0], NoData, s).send

\* C1: once a connection has ended on EOF, the lines sent are exactly the
\* newline-terminated lines of what was received: one terminal event per
\* newline, the k-th being the span that ends at the k-th newline.
C1_EveryLineEchoed ==
    \A c \in Conns : AtEnd(c) => sent[c] = Lines(rcvd[c])

\* C2: what is sent by the end of a connection does not depend on how the
\* stream was cut into chunks: it is what the same stream produces when it
\* arrives as a single chunk.
C2_ChunkingIndependent ==
    \A c \in Conns : (AtEnd(c) /\ rcvd[c] # <<>>) => sent[c] = OneChunk(rcvd[c])

\* C3: whenever the handler waits in recv (or has ended on EOF), every
\* complete line received has been sent, in order, and no newline is left
\* unconsumed in the byte source.
C3_EchoedBeforeWaiting ==
    \A c \in Conns :
        (wstate[c] = "recv" \/ AtEnd(c)) =>
            /\ Flatten(sent[c]) = Complete(c)
            /\ ~HasNL(Unconsumed(source[c]))

\* C4: a trailing fragment with no newline is never sent, and nothing is
\* sent from the moment the handler observes EOF: by the end of a connection
\* what was sent lies within the complete lines received, and no step that
\* leaves the worker stopped adds a send.
C4_NothingSentForFragment ==
    /\ [](\A c \in Conns : AtEnd(c) => IsPrefix(Flatten(sent[c]), Complete(c)))
    /\ [][\A c \in Conns : wstate'[c] = "stopped" => sent'[c] = sent[c]]_vars

\* A connection ended on EOF with an unterminated fragment pending, after
\* having echoed a line.
C4_Witness ==
    \E c \in Conns : AtEnd(c) /\ Fragment(rcvd[c]) # <<>> /\ sent[c] # <<>>

\* The bytes the step adds to rcvd[c].
Arrived(c) == SubSeq(rcvd'[c], Len(rcvd[c]) + 1, Len(rcvd'[c]))

\* C5: a receive that ends with the source exhausted and no terminal sends
\* nothing and keeps the partial capture (the fragment received so far);
\* when a later receive brings the newline, the line is sent once, whole:
\* the fragment held followed by the new bytes up to the newline.
C5_PartialLineKept ==
    [][\A c \in Conns :
         /\ (rcvd'[c] # rcvd[c] /\ sequence'[c] = "suspended") =>
               /\ sent'[c] = sent[c]
               /\ wstate'[c] = "recv"
               /\ "echo_" \in DOMAIN data'[c]
               /\ data'[c]["echo_"] = Fragment(rcvd'[c])
         /\ (rcvd'[c] # rcvd[c] /\ sequence[c] = "suspended"
               /\ HasNL(Arrived(c)) /\ wstate'[c] = "recv") =>
               sent'[c] = Append(sent[c],
                                 Fragment(rcvd[c]) \o SubSeq(Arrived(c), 1, FirstNL(Arrived(c))))
      ]_vars

\* A line that arrived in two receives has been echoed, once and whole.
C5_Witness ==
    \E c \in Conns :
        /\ nrecv[c] = 2
        /\ HasNL(rcvd[c])
        /\ FirstNL(rcvd[c]) = Len(rcvd[c])
        /\ sent[c] = <<rcvd[c]>>

\* C6: a connection whose handler has terminated has been half-closed and
\* closed by the handler.
C6_HandlerClosesSocket ==
    \A c \in Conns : wstate[c] = "stopped" => (wrShut[c] /\ closed[c])

\* C7: once main has forced the half-close of a connection whose worker is
\* blocked in recv and waits for it, the worker eventually terminates.
C7_HalfCloseEndsWorker ==
    \A c \in Conns :
        (mpc = "joining" /\ (\E a \in Addrs : joining = a /\ threads[a] = c)
            /\ wstate[c] = "recv")
            ~> (wstate[c] = "stopped")

\* C8: main returns 0 after an interrupt and a non-zero status after an
\* unexpected failure in the accept loop.
C8_StatusTellsCause ==
    mpc = "exit" =>
        /\ cause = "interrupt" => status = 0
        /\ cause = "failure" => status # 0

\* The state of worker d and of its socket, as one value.
WorkerOf(d) == <<wstate[d], failure[d], rcvd[d], nrecv[d], source[d], data[d],
                 sequence[d], sent[d], addr[d], wrShut[d], closed[d]>>

\* C9: a step in which the worker of c ends on an exception changes nothing
\* of the dispatcher (done, threads, listener, exit) and nothing of any
\* other worker.
C9_WorkerFailureContained ==
    [][\A c \in Conns :
         (wstate[c] = "recv" /\ wstate'[c] = "stopped" /\ failure'[c] # "none") =>
             /\ UNCHANGED mainVars
             /\ \A d \in Conns \ {c} : WorkerOf(d)' = WorkerOf(d)
      ]_vars

\* One worker has failed while the dispatcher goes on and another worker,
\* which has echoed a line, is still being served.
C9_Witness ==
    \E c, d \in Conns :
        /\ c # d
        /\ failure[c] # "none"
        /\ wstate[d] = "recv" /\ sent[d] # <<>>
        /\ ~done /\ mpc = "loop"

\* C10: an interrupted select (EINTR) in readable never reaches the caller
\* as an exception, neither in a worker's recv nor in main's accept.
C10_EINTRNotSurfaced ==
    /\ \A c \in Conns : failure[c] # "EINTR"
    /\ mainExc # "EINTR"

\* C11: however the shutdown signal, the readiness poll or the final receive
\* of drain fail, drain returns to its caller and conn.close() has been
\* executed.
C11_DrainAlwaysCloses ==
    \A c \in Conns : drained[c].out # "none" => (drained[c].out = "return" /\ closed[c])

\* The bytes of c's source consumed so far.
Consumed(c) == SubSeq(source[c].buf, 1, source[c].pos)

\* The last element of a non-empty sequence.
Last(ss) == ss[Len(ss)]

\* While the handler of c is alive: the lines recognized so far are the lines
\* of the bytes consumed, and a capture in progress holds exactly the bytes
\* consumed since the last newline.
Recognized(c) ==
    /\ sent[c] = Lines(Consumed(c))
    /\ "echo_" \in DOMAIN data[c] <=> Fragment(Consumed(c)) # <<>>
    /\ "echo_" \in DOMAIN data[c] => data[c]["echo_"] = Fragment(Consumed(c))

\* C12 (as claimed): after a terminal and the reset the machine recognizes
\* the next line with a capture free of the prior line, and the promoted key
\* echo is absent from the store while the next line accumulates.
C12_PromotedKeyCleared ==
    \A c \in Conns :
        wstate[c] = "recv" =>
            /\ Recognized(c)
            /\ "echo_" \in DOMAIN data[c] => "echo" \notin DOMAIN data[c]

\* C12 (amended): after a terminal and the reset the machine recognizes the
\* next line with a capture free of the prior line; the promoted key echo is
\* not cleared, it holds exactly the last line recognized until the next
\* terminal replaces it.
C12_NoLeakAcrossReset ==
    \A c \in Conns :
        wstate[c] = "recv" =>
            /\ Recognized(c)
            /\ sent[c] # <<>> <=> "echo" \in DOMAIN data[c]
            /\ sent[c] # <<>> => data[c]["echo"] = Last(Lines(Consumed(c)))

\* Two lines have been recognized on one connection and a third is
\* accumulating.
C12_Witness ==
    \E c \in Conns :
        wstate[c] = "recv" /\ Len(sent[c]) = 2 /\ "echo_" \in DOMAIN data[c]

\* The step consumes bytes of c's source and ends on a newline: a terminal.
TerminalStep(c) ==
    /\ source'[c].pos > source[c].pos
    /\ source'[c].buf[source'[c].pos] = NL

\* What the sub-machine had captured for c before the step.
Captured(c) == IF "echo_" \in DOMAIN data[c] THEN data[c]["echo_"] ELSE <<>>

\* C13: in a step with a terminal the process hook has fired once when the
\* step ends: the promoted key holds exactly the bytes captured for the line
\* and the internal key is gone; in a step without a terminal it has not
\* fired: the promoted key is as it was.
C13_ProcessOncePerTerminal ==
    [][\A c \in Conns :
         IF TerminalStep(c)
         THEN /\ DOMAIN data'[c] = {"echo"}
              /\ data'[c]["echo"] =
                    Captured(c) \o SubSeq(source'[c].buf, source[c].pos + 1, source'[c].pos)
              /\ sequence'[c] # "suspended"
         ELSE /\ "echo" \in DOMAIN data'[c] <=> "echo" \in DOMAIN data[c]
              /\ "echo" \in DOMAIN data[c] => data'[c]["echo"] = data[c]["echo"]
      ]_vars

\* A line of two bytes, received in two chunks, has been promoted.
C13_Witness ==
    \E c \in Conns :
        /\ nrecv[c] = 2
        /\ DOMAIN data[c] = {"echo"}
        /\ Len(data[c]["echo"]) = 2

\* The bytes the run has before it in the step: what was left unconsumed
\* and what the step's receive chains.
Available(c) == Unconsumed(source[c]) \o Arrived(c)

\* C14: a run that reaches terminal stops on the first newline available to
\* it: it consumes up to and including that newline and nothing more, the
\* bytes behind it stay unconsumed in the source, and the capture promoted
\* is what was held plus the bytes up to that newline.
C14_StopsAtFirstNewline ==
    [][\A c \in Conns :
         TerminalStep(c) =>
             /\ HasNL(Available(c))
             /\ source'[c].pos = source[c].pos + FirstNL(Available(c))
             /\ Unconsumed(source'[c]) =
                    SubSeq(Available(c), FirstNL(Available(c)) + 1, Len(Available(c)))
             /\ data'[c]["echo"] =
                    Captured(c) \o SubSeq(Available(c), 1, FirstNL(Available(c)))
      ]_vars

\* One receive brought a line and bytes behind it; the line has been echoed
\* and the bytes behind it are still unconsumed.
C14_Witness ==
    \E c \in Conns :
        /\ wstate[c] = "recv"
        /\ nrecv[c] = 1
        /\ Len(sent[c]) = 1
        /\ Unconsumed(source[c]) # <<>>

\* One pass of main's loop that ends with done still False.
PollCycle == MainIdle \/ \E c \in Conns, a \in Addrs : MainAccept(c, a)

\* The step accepts a connection from address a.
AcceptedFrom(a) ==
    \E d \in Conns : wstate[d] = "unborn" /\ wstate'[d] = "recv" /\ addr'[d] = a

\* C15: after a poll cycle every handle the reap found finished has been
\* joined and removed, so no finished worker is left in the map, and the
\* worker just started is tracked; and as long as shutdown has not been
\* requested no handle of a running worker is removed.
C15_FinishedReaped ==
    [][/\ PollCycle =>
            /\ \A a \in Addrs : threads'[a] # 0 => wstate'[threads'[a]] # "stopped"
            /\ \A a \in Addrs :
                  (threads[a] # 0 /\ wstate[threads[a]] = "stopped" /\ ~AcceptedFrom(a)) =>
                      (threads'[a] = 0 /\ wrShut'[threads[a]])
            /\ \A a \in Addrs :
                  AcceptedFrom(a) =>
                      (threads'[a] # 0 /\ wstate[threads'[a]] = "unborn"
                          /\ addr'[threads'[a]] = a)
       /\ ~done' =>
            \A a \in Addrs :
                (threads[a] # 0 /\ wstate[threads[a]] = "recv" /\ ~AcceptedFrom(a)) =>
                    threads'[a] = threads[a]
      ]_vars

\* A finished worker has been joined and removed while a running one is
\* still tracked and the loop goes on.
C15_Witness ==
    \E c, d \in Conns :
        /\ mpc = "loop"
        /\ wstate[c] = "stopped" /\ wrShut[c] /\ \A a \in Addrs : threads[a] # c
        /\ wstate[d] = "recv" /\ \E a \in Addrs : threads[a] = d

\* The order of main's shutdown: nothing is accepted once done is set, a
\* handle is waited on only with its socket half-closed, an entry is deleted
\* only once its worker has ended, and the listener is closed only with the
\* map empty.
ShutdownOrder ==
    /\ [][\A c \in Conns : (done /\ wstate[c] = "unborn") => wstate'[c] = "unborn"]_vars
    /\ [](mpc = "joining" =>
            \E a \in Addrs : joining = a /\ threads[a] # 0 /\ wrShut[threads[a]])
    /\ [][\A a \in Addrs :
            (done /\ threads[a] # 0 /\ threads'[a] = 0) =>
                (wrShut[threads[a]] /\ wstate[threads[a]] = "stopped")]_vars
    /\ [](sock = "closed" => \A a \in Addrs : threads[a] = 0)

\* C16: once shutdown is requested nothing more is accepted, every handle
\* still in the map is half-closed before it is waited on, every such handle
\* is then joined and removed, and the listener is closed only after the map
\* is empty.
C16_ShutdownSequencing ==
    /\ ShutdownOrder
    /\ done ~> (\A a \in Addrs : threads[a] = 0)

\* C17: the source holds exactly the bytes received, its offset never moves
\* back, and while the handler is alive the bytes handed to the machine (the
\* lines recognized, then the capture in progress) are exactly the bytes
\* before the offset: none twice, none skipped.
C17_OffsetOnlyAdvances ==
    /\ [](\A c \in Conns :
            /\ source[c].buf = rcvd[c]
            /\ source[c].pos <= Len(rcvd[c])
            /\ wstate[c] = "recv" => Flatten(sent[c]) \o Captured(c) = Consumed(c))
    /\ [][\A c \in Conns :
            /\ source'[c].pos >= source[c].pos
            /\ IsPrefix(source[c].buf, source'[c].buf)]_vars

\* After a terminal and the restart, a second receive has been chained and
\* a second line recognized, with bytes still unconsumed behind it.
C17_Witness ==
    \E c \in Conns :
        /\ wstate[c] = "recv"
        /\ nrecv[c] = 2
        /\ Len(sent[c]) = 2
        /\ Unconsumed(source[c]) # <<>>

\* C18: a receive is followed by at most one send before the next receive;
\* after the send the run is restarted but not driven: nothing is captured
\* from the bytes still buffered until the next receive.
C18_OneSendPerReceive ==
    /\ [](\A c \in Conns : Len(sent[c]) <= nrecv[c])
    /\ [][\A c \in Conns :
            rcvd'[c] # rcvd[c] =>
                /\ Len(sent'[c]) <= Len(sent[c]) + 1
                /\ (TerminalStep(c) /\ wstate'[c] = "recv") =>
                       /\ Len(sent'[c]) = Len(sent[c]) + 1
                       /\ sequence'[c] = "fresh"
                       /\ "echo_" \notin DOMAIN data'[c]]_vars

\* One receive brought two lines: one has been sent, and the handler waits
\* with the other complete line still buffered.
C18_Witness ==
    \E c \in Conns :
        /\ wstate[c] = "recv"
        /\ nrecv[c] = 1
        /\ Len(sent[c]) = 1
        /\ HasNL(Unconsumed(source[c]))

\* C19: everything sent on a connection, concatenated, is a prefix of
\* everything received on it, made of whole lines in the order received: it
\* is empty or ends just behind a newline.
C19_SentIsPrefixOfReceived ==
    \A c \in Conns :
        /\ IsPrefix(Flatten(sent[c]), rcvd[c])
        /\ Flatten(sent[c]) = <<>> \/ Last(Flatten(sent[c])) = NL
        /\ IsPrefix(sent[c], Lines(rcvd[c]))

\* Two lines have been echoed and a byte received behind them has not.
C19_Witness ==
    \E c \in Conns : Len(sent[c]) = 2 /\ Len(rcvd[c]) = 3

\* C20: every worker started and not yet joined has its entry in the map,
\* so when main has exited every worker started has been half-closed and
\* has ended.
C20_UnjoinedIsTracked ==
    /\ \A c \in Conns :
          (wstate[c] # "unborn" /\ ~wrShut[c]) => \E a \in Addrs : threads[a] = c
    /\ mpc = "exit" =>
          \A c \in Conns : wstate[c] # "unborn" => (wrShut[c] /\ wstate[c] = "stopped")

=============================================================================
